---------------------------- MODULE Spec2Model ----------------------------
(***************************************************************************)
(* django_countries.Countries: the lazily built, cached list of            *)
(* (code, name) pairs, its override merge, and the read operations on it.  *)
(*                                                                         *)
(* A text is the sequence of its code points, so that Python's string      *)
(* order is a computation.  A name is a record [kind, s]: None, a plain    *)
(* string, or a lazy (ugettext_lazy) string that force_text resolves in    *)
(* the current translation.  A mapping (dict) is the sequence of its       *)
(* (key, value) items, keys unique.                                        *)
(***************************************************************************)
EXTENDS Integers, Sequences, FiniteSets, TLC

\* ------------------------------------------------------------- bounds
\* Largest number of items of a COUNTRIES_OVERRIDE mapping drawn at Init.
MaxOverride == 2
\* Largest number of items of a COUNTRIES_ONLY mapping drawn at Init.
MaxOnly == 1
\* Largest single index and largest slice stop handed to __getitem__.
MaxIndex == 3
\* Number of list objects one run may allocate (builds of the cache).
MaxLists == 2

\* -------------------------------------------------------------- texts
\* 'Australia'
Australia == <<65, 117, 115, 116, 114, 97, 108, 105, 97>>
\* 'New Zealand'
NewZealand == <<78, 101, 119, 32, 90, 101, 97, 108, 97, 110, 100>>
\* 'New'
New == <<78, 101, 119>>
\* 'Middle Earth'
MiddleEarth == <<77, 105, 100, 100, 108, 101, 32, 69, 97, 114, 116, 104>>
\* 'Desert'
Desert == <<68, 101, 115, 101, 114, 116>>
\* 'Australien', 'Neuseeland': the German catalogue's entries
Australien == <<65, 117, 115, 116, 114, 97, 108, 105, 101, 110>>
Neuseeland == <<78, 101, 117, 115, 101, 101, 108, 97, 110, 100>>
\* 'None': what force_text makes of None
NoneText == <<78, 111, 110, 101>>

\* None, a plain string, a lazily translated string.
None == [kind |-> "none", s |-> <<>>]
Str(t) == [kind |-> "str", s |-> t]
Lazy(t) == [kind |-> "lazy", s |-> t]
\* The '' that name() returns for an unknown code.
EmptyString == Str(<<>>)

Codes == {"AU", "NZ", "XX"}
\* A code that no mapping of the model holds.
UnknownCode == "ZZ"
Locales == {"en", "de"}

\* Python's order on strings: the first code point that differs decides, and
\* where none differs the shorter string, a proper prefix, comes first.
TextLess(a, b) ==
    LET n == IF Len(a) < Len(b) THEN Len(a) ELSE Len(b)
        diff == { k \in 1..n : a[k] # b[k] }
        first == CHOOSE k \in diff : \A j \in diff : k <= j
    IN  IF diff = {} THEN Len(a) < Len(b) ELSE a[first] < b[first]

\* ----------------------------------------------------------- mappings
\* The dicts of at most n items with keys in K and values in V, each as the
\* sequence of its items.
Mappings(K, V, n) ==
    { m \in UNION { [1..k -> K \X V] : k \in 0..n } :
        \A i, j \in 1..Len(m) : m[i][1] = m[j][1] => i = j }

\* key in mapping
HasKey(m, key) == \E i \in 1..Len(m) : m[i][1] = key
\* mapping[key], for a key it holds
Get(m, key) == m[CHOOSE i \in 1..Len(m) : m[i][1] = key][2]
\* set(mapping)
Keys(m) == { m[i][1] : i \in 1..Len(m) }
\* dict(pairs).get(key, default): of the pairs with this key the last one wins
DictGet(pairs, key, default) ==
    IF \E i \in 1..Len(pairs) : pairs[i][1] = key
    THEN pairs[CHOOSE i \in 1..Len(pairs) :
                 /\ pairs[i][1] = key
                 /\ \A j \in (i + 1)..Len(pairs) : pairs[j][1] # key][2]
    ELSE default

\* The orders in which iterating a set of strings can yield its elements.
Orders(S) ==
    { o \in [1..Cardinality(S) -> S] :
        \A i, j \in 1..Cardinality(S) : o[i] = o[j] => i = j }

\* ----------------------------------------------------------- the data
\* django_countries.data.COUNTRIES, cut to two countries.
FullBase == << <<"AU", Lazy(Australia)>>, <<"NZ", Lazy(NewZealand)>> >>
BaseChoices == { SubSeq(FullBase, 1, n) : n \in 0..Len(FullBase) }

OverrideValues == {Str(New), None}
OnlyValues == {Str(Desert), Str(New)}

\* The settings of test_settings.py, and no setting.
TestOverrides ==
    { <<>>,
      << <<"XX", Str(New)>> >>,
      << <<"NZ", Str(MiddleEarth)>> >>,
      << <<"AU", None>> >> }
TestOnly == { <<>>, << <<"AU", Str(Desert)>> >> }

VARIABLES
    COUNTRIES,           \* django_countries.data.COUNTRIES
    COUNTRIES_ONLY,      \* settings.COUNTRIES_ONLY
    COUNTRIES_OVERRIDE,  \* settings.COUNTRIES_OVERRIDE
    locale,              \* the thread's current translation
    _countries,          \* the instance attribute: NoAttr, or the list object
    nextId,              \* identity of the next list object allocated
    discarded,           \* the items of the list the last del removed
    ret,                 \* the last operation, its argument and its outcome
    pc,                  \* per thread: the line of the getter it is at
    pos,                 \* per thread: how many items its loop has taken
    keys,                \* per thread: the order its set difference yields
    seen                 \* per thread: the items of the list at its return

vars == <<COUNTRIES, COUNTRIES_ONLY, COUNTRIES_OVERRIDE, locale, _countries,
          nextId, discarded, ret, pc, pos, keys, seen>>

\* The variables of the threads that run the getter line by line.
threadVars == <<pc, pos, keys, seen>>
Threads == {1, 2}

\* hasattr(self, '_countries') is false
NoAttr == [id |-> 0, items |-> <<>>]
hasattr == _countries # NoAttr

\* --------------------------------------------------------- the merge
\* The loop without its `name = overrides[code]`.
BaseWalk_KeepsNames(base, overrides) ==
    LET Kept(p) == p[2] # None
    IN  SelectSeq(base, Kept)

\* The loop over COUNTRIES.items(): the override's value replaces the name,
\* and a pair whose name is None is not appended.
BaseWalk(base, overrides) ==
    LET named == [i \in 1..Len(base) |->
                    <<base[i][1],
                      IF HasKey(overrides, base[i][1])
                      THEN Get(overrides, base[i][1])
                      ELSE base[i][2]>>]
        Kept(p) == p[2] # None
    IN  SelectSeq(named, Kept)

\* The loop over set(overrides) - set(COUNTRIES), which yields its keys in the
\* order `order`: every key is appended with its value.
Additions(order, overrides) ==
    [i \in 1..Len(order) |-> <<order[i], Get(overrides, order[i])>>]

\* The build with the override winning over COUNTRIES_ONLY.
Build_OverrideFirst(only, overrides, base, order) ==
    IF only # <<>> /\ overrides = <<>>
    THEN only
    ELSE BaseWalk(base, overrides) \o Additions(order, overrides)

\* The build with its two loops in the other order.
Build_AdditionsFirst(only, overrides, base, order) ==
    IF only # <<>>
    THEN only
    ELSE Additions(order, overrides) \o BaseWalk(base, overrides)

\* The items of the list the getter builds when the attribute is absent.
Build(only, overrides, base, order) ==
    IF only # <<>>
    THEN only
    ELSE BaseWalk(base, overrides) \o Additions(order, overrides)

\* The second loop over set(overrides), without the difference.
AddOrders_AllKeys(overrides, base) == Orders(Keys(overrides))

\* The orders the set difference can be iterated in.
AddOrders(overrides, base) == Orders(Keys(overrides) \ Keys(base))

\* Every list a build under this configuration can produce.
Builds(only, overrides, base) ==
    { Build(only, overrides, base, o) : o \in AddOrders(overrides, base) }

\* ------------------------------------------------------ the iteration
\* force_text without the thread's translation: a lazy string gives its msgid.
force_text_untranslated(name, loc) ==
    CASE name.kind = "none" -> NoneText
      [] OTHER -> name.s

\* force_text in the thread's current translation.
force_text(name, loc) ==
    CASE name.kind = "none" -> NoneText
      [] name.kind = "str" -> name.s
      [] OTHER -> IF loc = "de" /\ name.s = Australia THEN Australien
                  ELSE IF loc = "de" /\ name.s = NewZealand THEN Neuseeland
                  ELSE name.s

\* A sort that puts a pair before the pairs with an equal key: not stable.
RECURSIVE sorted_unstable(_)
sorted_unstable(pairs) ==
    IF pairs = <<>> THEN <<>>
    ELSE LET front == sorted_unstable(SubSeq(pairs, 1, Len(pairs) - 1))
             e == pairs[Len(pairs)]
             n == Cardinality({ i \in 1..Len(front) : TextLess(front[i][2], e[2]) })
         IN  SubSeq(front, 1, n) \o <<e>> \o SubSeq(front, n + 1, Len(front))

\* __iter__ without its sort.
sorted_not(pairs) == pairs

\* sorted(pairs, key=itemgetter(1)): a stable sort, here by insertion; a pair
\* goes behind every pair whose key is not greater.
RECURSIVE sorted(_)
sorted(pairs) ==
    IF pairs = <<>> THEN <<>>
    ELSE LET front == sorted(SubSeq(pairs, 1, Len(pairs) - 1))
             e == pairs[Len(pairs)]
             n == Cardinality({ i \in 1..Len(front) : ~TextLess(e[2], front[i][2]) })
         IN  SubSeq(front, 1, n) \o <<e>> \o SubSeq(front, n + 1, Len(front))

\* __iter__ leaving out the pairs whose name is None.
Iter_DropsNone(items, loc) ==
    LET Named(p) == p[2] # None
        named == SelectSeq(items, Named)
    IN  sorted([i \in 1..Len(named) |-> <<named[i][1], force_text(named[i][2], loc)>>])

\* list(self.__iter__())
Iter(items, loc) ==
    sorted([i \in 1..Len(items) |-> <<items[i][1], force_text(items[i][2], loc)>>])

\* ------------------------------------------------------- the property
\* The getter without its hasattr test: every access builds.
countries_uncached(order) ==
    [id |-> nextId,
     items |-> Build(COUNTRIES_ONLY, COUNTRIES_OVERRIDE, COUNTRIES,
                     CHOOSE o \in AddOrders(COUNTRIES_OVERRIDE, COUNTRIES) : TRUE)]

\* The getter watching the settings: a list they no longer give is rebuilt.
countries_watching(order) ==
    IF hasattr /\ _countries.items
                    \in Builds(COUNTRIES_ONLY, COUNTRIES_OVERRIDE, COUNTRIES)
    THEN _countries
    ELSE [id |-> nextId,
          items |-> Build(COUNTRIES_ONLY, COUNTRIES_OVERRIDE, COUNTRIES,
                          CHOOSE o \in AddOrders(COUNTRIES_OVERRIDE, COUNTRIES) : TRUE)]

\* The getter putting the cached list into another order on each access.
countries_reorders(order) ==
    IF hasattr
    THEN [_countries EXCEPT
            !.items = [i \in 1..Len(@) |-> @[Len(@) + 1 - i]]]
    ELSE [id |-> nextId,
          items |-> Build(COUNTRIES_ONLY, COUNTRIES_OVERRIDE, COUNTRIES, order)]

\* The value of self.countries: the cached list object, or a new one built from
\* the settings as they are now.
countries(order) ==
    IF hasattr
    THEN _countries
    ELSE [id |-> nextId,
          items |-> Build(COUNTRIES_ONLY, COUNTRIES_OVERRIDE, COUNTRIES, order)]

\* The set difference is iterated only when the list is built.
BuildOrders ==
    IF hasattr THEN {<<>>} ELSE AddOrders(COUNTRIES_OVERRIDE, COUNTRIES)

\* Reading self.countries: the attribute afterwards is the value returned.
Getter(order) ==
    /\ hasattr \/ nextId <= MaxLists
    /\ _countries' = countries(order)
    /\ nextId' = IF hasattr THEN nextId ELSE nextId + 1
    /\ UNCHANGED <<COUNTRIES, COUNTRIES_ONLY, COUNTRIES_OVERRIDE, locale, discarded, threadVars>>

Returned(op, arg, val) == [op |-> op, arg |-> arg, exc |-> "", val |-> val]
Raised(op, arg, exc) == [op |-> op, arg |-> arg, exc |-> exc, val |-> <<>>]

\* countries.countries
RawEntries ==
    \E order \in BuildOrders :
        /\ Getter(order)
        /\ ret' = Returned("countries", <<>>, _countries')

\* The deleter leaving the attribute in place.
deleter_attr_keeps == _countries

\* del countries.countries
deleter_attr == IF hasattr THEN NoAttr ELSE _countries

\* del self._countries without the hasattr test before it.
deleter_ret_unguarded ==
    IF hasattr
    THEN [op |-> "del", arg |-> <<>>, exc |-> "", val |-> <<>>]
    ELSE [op |-> "del", arg |-> <<>>, exc |-> "AttributeError", val |-> <<>>]

\* The outcome of the deleter: the del runs only when the attribute is there,
\* so nothing is raised.
deleter_ret == [op |-> "del", arg |-> <<>>, exc |-> "", val |-> <<>>]

Deleter ==
    /\ _countries' = deleter_attr
    /\ discarded' = IF hasattr THEN <<_countries.items>> ELSE discarded
    /\ ret' = deleter_ret
    /\ UNCHANGED <<COUNTRIES, COUNTRIES_ONLY, COUNTRIES_OVERRIDE, locale, nextId, threadVars>>

\* name() with None, dict.get's own default, where '' is meant.
name_of_none(items, code) == DictGet(items, code, None)

\* countries.name(code)
name_of(items, code) == DictGet(items, code, EmptyString)

Name ==
    \E code \in Codes \cup {UnknownCode} :
    \E order \in BuildOrders :
        /\ Getter(order)
        /\ ret' = Returned("name", code, name_of(_countries'.items, code))

\* len(countries)
len_of(items) == Len(items)

Length ==
    \E order \in BuildOrders :
        /\ Getter(order)
        /\ ret' = Returned("len", <<>>, len_of(_countries'.items))

\* code in countries
contains_of(items, code) == \E i \in 1..Len(items) : code = items[i][1]

Contains ==
    \E code \in Codes \cup {UnknownCode} :
    \E order \in BuildOrders :
        /\ Getter(order)
        /\ ret' = Returned("contains", code, contains_of(_countries'.items, code))

\* list(countries)
Iterate ==
    \E order \in BuildOrders :
        /\ Getter(order)
        /\ ret' = Returned("iter", <<>>, Iter(_countries'.items, locale))

\* ------------------------------------------------------- __getitem__
\* An optional integer: <<>> is None, <<n>> is n.
IsNone(x) == x = <<>>
Or(x, default) == IF IsNone(x) THEN default ELSE x[1]

\* islice(it, start, stop, step) refuses a negative start or stop and a step
\* below 1.
IsliceRefuses(start, stop, step) ==
    \/ Or(start, 0) < 0
    \/ Or(stop, 0) < 0
    \/ Or(step, 1) < 1

\* list(islice(it, start, stop, step)), when islice accepts its arguments.
Islice(it, start, stop, step) ==
    LET s == Or(start, 0)
        e == IF IsNone(stop) \/ Or(stop, 0) > Len(it) THEN Len(it) ELSE stop[1]
        d == Or(step, 1)
        n == IF e <= s THEN 0 ELSE ((e - s - 1) \div d) + 1
    IN  [k \in 1..n |-> it[s + (k - 1) * d + 1]]

\* countries[index], index an integer: next(islice(it, index, index + 1))
getitem_index(it, index) ==
    IF IsliceRefuses(<<index>>, <<index + 1>>, <<>>)
    THEN Raised("getitem", index, "ValueError")
    ELSE IF Islice(it, <<index>>, <<index + 1>>, <<>>) = <<>>
    THEN Raised("getitem", index, "StopIteration")
    ELSE Returned("getitem", index, Islice(it, <<index>>, <<index + 1>>, <<>>)[1])

\* countries[start:stop:step]: index + 1 is a TypeError, and the handler
\* returns list(islice(it, index.start, index.stop, index.step))
getitem_slice(it, sl) ==
    IF IsliceRefuses(sl.start, sl.stop, sl.step)
    THEN Raised("getslice", sl, "ValueError")
    ELSE Returned("getslice", sl, Islice(it, sl.start, sl.stop, sl.step))

Indices == (-1)..(MaxIndex + 1)
Slices ==
    [start : {<<>>, <<1>>},
     stop : {<<>>, <<1>>, <<MaxIndex>>},
     step : {<<>>, <<2>>, <<-1>>}]

GetItem ==
    \E order \in BuildOrders :
        /\ Getter(order)
        /\ LET it == Iter(_countries'.items, locale)
           IN  \E index \in Indices : ret' = getitem_index(it, index)

GetSlice ==
    \E order \in BuildOrders :
        /\ Getter(order)
        /\ LET it == Iter(_countries'.items, locale)
           IN  \E sl \in Slices : ret' = getitem_slice(it, sl)

\* ------------------------------------------------------ the settings
\* with self.settings(COUNTRIES_OVERRIDE=...)
SetOverride ==
    \E o \in TestOverrides :
        /\ COUNTRIES_OVERRIDE' = o
        /\ ret' = Returned("settings", <<>>, <<>>)
        /\ UNCHANGED <<COUNTRIES, COUNTRIES_ONLY, locale, _countries, nextId, discarded, threadVars>>

\* with self.settings(COUNTRIES_ONLY=...)
SetOnly ==
    \E o \in TestOnly :
        /\ COUNTRIES_ONLY' = o
        /\ ret' = Returned("settings", <<>>, <<>>)
        /\ UNCHANGED <<COUNTRIES, COUNTRIES_OVERRIDE, locale, _countries, nextId, discarded, threadVars>>

\* The thread's translation changes.
SetLocale ==
    \E l \in Locales :
        /\ locale' = l
        /\ ret' = Returned("activate", <<>>, <<>>)
        /\ UNCHANGED <<COUNTRIES, COUNTRIES_ONLY, COUNTRIES_OVERRIDE, _countries, nextId, discarded, threadVars>>

\* ------------------------------------------------ the specifications
\* No thread is inside the getter.
NoThreads ==
    /\ pc = [t \in Threads |-> "idle"]
    /\ pos = [t \in Threads |-> 0]
    /\ keys = [t \in Threads |-> <<>>]
    /\ seen = [t \in Threads |-> <<>>]

\* countries = Countries(): no attribute; the settings at their defaults.
Init ==
    /\ COUNTRIES = FullBase
    /\ COUNTRIES_ONLY = <<>>
    /\ COUNTRIES_OVERRIDE = <<>>
    /\ locale = "en"
    /\ _countries = NoAttr
    /\ nextId = 1
    /\ discarded = <<>>
    /\ ret = Returned("init", <<>>, <<>>)
    /\ NoThreads

Next ==
    \/ RawEntries
    \/ Deleter
    \/ Name
    \/ Length
    \/ Contains
    \/ Iterate
    \/ GetItem
    \/ GetSlice
    \/ SetOverride
    \/ SetOnly

Spec == Init /\ [][Next]_vars

\* A fresh collection under every configuration within the bounds; the
\* configuration stays as it is.
InitMerge ==
    /\ COUNTRIES \in BaseChoices
    /\ COUNTRIES_ONLY \in Mappings(Codes, OnlyValues, MaxOnly)
    /\ COUNTRIES_OVERRIDE \in Mappings(Codes, OverrideValues, MaxOverride)
    /\ locale = "en"
    /\ _countries = NoAttr
    /\ nextId = 1
    /\ discarded = <<>>
    /\ ret = Returned("init", <<>>, <<>>)
    /\ NoThreads

NextMerge ==
    \/ RawEntries
    \/ Name
    \/ Length
    \/ Contains

SpecMerge == InitMerge /\ [][NextMerge]_vars

\* A fresh collection under every override within the bounds, in every
\* translation; the reads are those that go through __iter__.
InitIter ==
    /\ COUNTRIES \in BaseChoices
    /\ COUNTRIES_ONLY \in TestOnly
    /\ COUNTRIES_OVERRIDE \in Mappings(Codes, OverrideValues, MaxOverride)
    /\ locale \in Locales
    /\ _countries = NoAttr
    /\ nextId = 1
    /\ discarded = <<>>
    /\ ret = Returned("init", <<>>, <<>>)
    /\ NoThreads

NextIter ==
    \/ Iterate
    \/ GetItem
    \/ GetSlice
    \/ SetLocale

SpecIter == InitIter /\ [][NextIter]_vars

\* ------------------------------------------- the getter, line by line
\* Two threads read countries.countries on the shared instance; a thread can
\* be preempted between any two statements of the getter.
Shared == <<COUNTRIES, COUNTRIES_ONLY, COUNTRIES_OVERRIDE, locale, discarded, ret>>

\* if not hasattr(self, '_countries'):
TestAttr(t) ==
    /\ pc[t] = "idle"
    /\ pc' = [pc EXCEPT ![t] = IF hasattr THEN "return" ELSE "branch"]
    /\ UNCHANGED <<Shared, _countries, nextId, pos, keys, seen>>

\* if settings.COUNTRIES_ONLY: self._countries = list(...items())
\* else: self._countries = []
Assign(t) ==
    /\ pc[t] = "branch"
    /\ nextId <= MaxLists
    /\ _countries' = [id |-> nextId,
                      items |-> IF COUNTRIES_ONLY # <<>> THEN COUNTRIES_ONLY ELSE <<>>]
    /\ nextId' = nextId + 1
    /\ pc' = [pc EXCEPT ![t] = IF COUNTRIES_ONLY # <<>> THEN "return" ELSE "walk"]
    /\ pos' = [pos EXCEPT ![t] = 0]
    /\ UNCHANGED <<Shared, keys, seen>>

\* One pass of `for code, name in COUNTRIES.items()`: the pair is appended to
\* the list that self._countries is at this moment.
Walk(t) ==
    /\ pc[t] = "walk"
    /\ pos[t] < Len(COUNTRIES)
    /\ LET pair == COUNTRIES[pos[t] + 1]
           kept == BaseWalk(<<pair>>, COUNTRIES_OVERRIDE)
       IN  _countries' = [_countries EXCEPT !.items = @ \o kept]
    /\ pos' = [pos EXCEPT ![t] = @ + 1]
    /\ UNCHANGED <<Shared, nextId, pc, keys, seen>>

\* The loop over COUNTRIES ends; set(overrides) - set(COUNTRIES) is made.
WalkEnd(t) ==
    /\ pc[t] = "walk"
    /\ pos[t] = Len(COUNTRIES)
    /\ \E order \in AddOrders(COUNTRIES_OVERRIDE, COUNTRIES) :
          keys' = [keys EXCEPT ![t] = order]
    /\ pos' = [pos EXCEPT ![t] = 0]
    /\ pc' = [pc EXCEPT ![t] = "add"]
    /\ UNCHANGED <<Shared, _countries, nextId, seen>>

\* One pass of `for key in set(overrides) - set(COUNTRIES)`.
Add(t) ==
    /\ pc[t] = "add"
    /\ pos[t] < Len(keys[t])
    /\ _countries' = [_countries EXCEPT
                        !.items = @ \o Additions(<<keys[t][pos[t] + 1]>>, COUNTRIES_OVERRIDE)]
    /\ pos' = [pos EXCEPT ![t] = @ + 1]
    /\ UNCHANGED <<Shared, nextId, pc, keys, seen>>

AddEnd(t) ==
    /\ pc[t] = "add"
    /\ pos[t] = Len(keys[t])
    /\ pc' = [pc EXCEPT ![t] = "return"]
    /\ UNCHANGED <<Shared, _countries, nextId, pos, keys, seen>>

\* return self._countries: the caller sees the list as it is now.
Return(t) ==
    /\ pc[t] = "return"
    /\ seen' = [seen EXCEPT ![t] = <<_countries.items>>]
    /\ pc' = [pc EXCEPT ![t] = "done"]
    /\ UNCHANGED <<Shared, _countries, nextId, pos, keys>>

AllDone == \A t \in Threads : pc[t] = "done"

\* A later reader: len(countries) once both threads have returned.
LateLength == AllDone /\ Length

InitConc ==
    /\ COUNTRIES \in BaseChoices
    /\ COUNTRIES_ONLY \in TestOnly
    /\ COUNTRIES_OVERRIDE \in TestOverrides
    /\ locale = "en"
    /\ _countries = NoAttr
    /\ nextId = 1
    /\ discarded = <<>>
    /\ ret = Returned("init", <<>>, <<>>)
    /\ NoThreads

NextConc ==
    \/ \E t \in Threads : TestAttr(t)
    \/ \E t \in Threads : Assign(t)
    \/ \E t \in Threads : Walk(t)
    \/ \E t \in Threads : WalkEnd(t)
    \/ \E t \in Threads : Add(t)
    \/ \E t \in Threads : AddEnd(t)
    \/ \E t \in Threads : Return(t)
    \/ LateLength

SpecConc == InitConc /\ [][NextConc]_vars

\* =========================================================== the claims
CodesOf(items) == { items[i][1] : i \in 1..Len(items) }
PairsOf(items) == { items[i] : i \in 1..Len(items) }
\* The cache was built from the settings as they are now.
Fresh ==
    /\ hasattr
    /\ _countries.items \in Builds(COUNTRIES_ONLY, COUNTRIES_OVERRIDE, COUNTRIES)
MapsToNone(code) ==
    HasKey(COUNTRIES_OVERRIDE, code) /\ Get(COUNTRIES_OVERRIDE, code) = None
MapsToName(code) ==
    HasKey(COUNTRIES_OVERRIDE, code) /\ Get(COUNTRIES_OVERRIDE, code) # None

\* C1: with COUNTRIES_ONLY empty, a code that COUNTRIES_OVERRIDE maps to None
\* is not contained in a freshly built collection and its name is '', whether
\* the code is one of the base dataset or not.
C1_NoneRemoves ==
    (COUNTRIES_ONLY = <<>> /\ Fresh) =>
        /\ (ret.op = "contains" /\ MapsToNone(ret.arg)) => ret.val = FALSE
        /\ (ret.op = "name" /\ MapsToNone(ret.arg)) => ret.val = EmptyString

\* C2: with COUNTRIES_ONLY non-empty, the built list is the items of
\* COUNTRIES_ONLY and its length their number, whatever COUNTRIES_OVERRIDE and
\* the base dataset are.
C2_OnlyVerbatim ==
    COUNTRIES_ONLY # <<>> =>
        /\ hasattr => _countries.items = COUNTRIES_ONLY
        /\ ret.op = "countries" => ret.val.items = COUNTRIES_ONLY
        /\ ret.op = "len" => ret.val = Len(COUNTRIES_ONLY)

\* COUNTRIES_ONLY is returned although the override would remove its code and
\* the base dataset holds it under another name.
C2_Witness ==
    /\ ret.op = "countries"
    /\ COUNTRIES_ONLY = << <<"AU", Str(Desert)>> >>
    /\ MapsToNone("AU")
    /\ "AU" \in Keys(COUNTRIES)
    /\ ret.val.items = COUNTRIES_ONLY

\* C3: with COUNTRIES_ONLY empty, a code that COUNTRIES_OVERRIDE maps to a name
\* has that name and is contained, be it a base code or not.
C3_OverrideName ==
    (COUNTRIES_ONLY = <<>> /\ Fresh) =>
        /\ (ret.op = "name" /\ MapsToName(ret.arg)) =>
               ret.val = Get(COUNTRIES_OVERRIDE, ret.arg)
        /\ (ret.op = "contains" /\ MapsToName(ret.arg)) => ret.val = TRUE

\* The name of a replaced base code was looked up, under an override that also
\* adds a code.
C3_Witness ==
    /\ COUNTRIES_ONLY = <<>>
    /\ ret.op = "name"
    /\ ret.arg = "NZ"
    /\ "NZ" \in Keys(COUNTRIES)
    /\ MapsToName("XX")
    /\ ret.val = Str(New)

\* The effective set as the specification defines it.
EffectiveSet(base, overrides) ==
    { p \in { <<base[i][1],
                IF HasKey(overrides, base[i][1])
                THEN Get(overrides, base[i][1])
                ELSE base[i][2]>> : i \in 1..Len(base) } : p[2] # None }
    \cup { p \in PairsOf(overrides) : p[1] \notin Keys(base) /\ p[2] # None }

\* C4: with COUNTRIES_ONLY empty, the pairs of a freshly built list are the
\* base pairs with the override's names, without those overridden to None,
\* and the override's pairs of non-base codes with a name that is not None;
\* the length is |base| - |base codes overridden to None| + |non-base codes
\* overridden to a name|.
C4_EffectiveSet ==
    (COUNTRIES_ONLY = <<>> /\ Fresh) =>
        /\ PairsOf(_countries.items) = EffectiveSet(COUNTRIES, COUNTRIES_OVERRIDE)
        /\ ret.op = "len" =>
               ret.val = Len(COUNTRIES)
                   - Cardinality({ c \in Keys(COUNTRIES) : MapsToNone(c) })
                   + Cardinality({ c \in Keys(COUNTRIES_OVERRIDE) \ Keys(COUNTRIES) :
                                     MapsToName(c) })

IsRead(op) ==
    op \in {"countries", "name", "len", "contains", "iter", "getitem", "getslice"}

\* What a read returned is what the list `items` holds.
ReadOf(r, items) ==
    /\ r.op = "countries" => r.val.items = items
    /\ r.op = "len" => r.val = Len(items)
    /\ r.op = "contains" => (r.val <=> r.arg \in CodesOf(items))
    /\ r.op = "name" =>
          IF r.arg \in CodesOf(items)
          THEN <<r.arg, r.val>> \in PairsOf(items)
          ELSE r.val = EmptyString
    /\ r.op = "iter" =>
          /\ Len(r.val) = Len(items)
          /\ CodesOf(r.val) = CodesOf(items)

\* C5: del removes the cache, a change of the settings does not bring it
\* back, and the first read after it, whether the settings changed before
\* or after the del, returns a merge of the settings as they are at the read.
C5_InvalidateRebuilds ==
    [][/\ ret'.op = "del" => ~hasattr'
       /\ (~hasattr /\ ret'.op = "settings") => ~hasattr'
       /\ (~hasattr /\ IsRead(ret'.op)) =>
             /\ _countries'.items
                   \in Builds(COUNTRIES_ONLY', COUNTRIES_OVERRIDE', COUNTRIES')
             /\ ReadOf(ret', _countries'.items)
      ]_vars

\* A read after a del returned the merge of settings under which the list
\* that the del removed cannot be built.
C5_Witness ==
    /\ ret.op = "name"
    /\ discarded # <<>>
    /\ discarded[1] \notin Builds(COUNTRIES_ONLY, COUNTRIES_OVERRIDE, COUNTRIES)
    /\ _countries.id = 2
    /\ Fresh
    /\ ReadOf(ret, _countries.items)

\* C6: what iteration yields is non-decreasing by resolved name, and
\* countries[i], 0 <= i < len(countries), is its i-th element.
C6_SortedByName ==
    /\ ret.op = "iter" =>
          \A i, j \in 1..Len(ret.val) :
              i < j => ~TextLess(ret.val[j][2], ret.val[i][2])
    /\ (ret.op = "getitem" /\ 0 <= ret.arg /\ ret.arg < Len(_countries.items)) =>
          /\ ret.exc = ""
          /\ ret.val = Iter(_countries.items, locale)[ret.arg + 1]

\* The last of three entries was read by index, in the German translation,
\* and it is not the entry the raw list holds last.
C6_Witness ==
    /\ ret.op = "getitem"
    /\ ret.arg = 2
    /\ ret.exc = ""
    /\ locale = "de"
    /\ Len(_countries.items) = 3
    /\ ret.val[1] # _countries.items[3][1]

\* C7: countries[i] with i >= len(countries) fails with IndexError, and a
\* slice never does: it returns the elements of its range that exist.
C7_IndexError ==
    /\ (ret.op = "getitem" /\ ret.arg >= Len(_countries.items)) =>
          ret.exc = "IndexError"
    /\ ret.op = "getslice" => ret.exc # "IndexError"

\* C8: for a code that no raw entry has, name() returns '' and `in` is
\* false, no error is raised, and a cache that exists stays as it is (one that
\* does not is built from the settings).
C8_UnknownCode ==
    [][(ret'.op \in {"name", "contains"} /\ ret'.arg \notin CodesOf(_countries'.items)) =>
          /\ ret'.exc = ""
          /\ ret'.op = "name" => ret'.val = EmptyString
          /\ ret'.op = "contains" => ret'.val = FALSE
          /\ hasattr => _countries' = _countries
          /\ ~hasattr =>
                _countries'.items \in Builds(COUNTRIES_ONLY, COUNTRIES_OVERRIDE, COUNTRIES)
      ]_vars

\* The name of a base code that the override removes was looked up.
C8_Witness ==
    /\ ret.op = "name"
    /\ ret.arg = "AU"
    /\ "AU" \in Keys(COUNTRIES)
    /\ COUNTRIES_ONLY = <<>>
    /\ MapsToNone("AU")
    /\ ret.val = EmptyString
    /\ Len(_countries.items) >= 2

\* C9: a list is built only when the attribute is absent, and the build sets
\* it; while it is set every read leaves it the same object with the same
\* items, whatever the settings have become, and countries.countries returns
\* that object.
C9_BuiltOnce ==
    [][/\ nextId' # nextId => (~hasattr /\ hasattr' /\ nextId' = nextId + 1)
       /\ (hasattr /\ IsRead(ret'.op)) =>
             (_countries' = _countries /\ nextId' = nextId)
       /\ (hasattr /\ ret'.op = "countries") => ret'.val = _countries
      ]_vars

\* countries.countries returned the cached list although the settings no
\* longer give it.
C9_Witness ==
    /\ ret.op = "countries"
    /\ hasattr
    /\ ~Fresh
    /\ ret.val = _countries

\* C10: when two threads run a first access at once, what each access
\* returns, what a later len() returns and the list cached in the end are
\* those of a sequential build of the settings.
C10_RaceBenign ==
    LET builds == Builds(COUNTRIES_ONLY, COUNTRIES_OVERRIDE, COUNTRIES)
    IN  /\ \A t \in Threads : pc[t] = "done" => seen[t][1] \in builds
        /\ AllDone => _countries.items \in builds
        /\ (AllDone /\ ret.op = "len") => \E b \in builds : ret.val = Len(b)

\* C11: whenever the attribute is set, no two entries of the list have the
\* same code, whatever settings changes, dels and reads came before.
C11_UniqueCodes ==
    hasattr =>
        \A i, j \in 1..Len(_countries.items) :
            _countries.items[i][1] = _countries.items[j][1] => i = j

\* A list of three entries, built after a del under an override that
\* replaces the name of a base code or adds a code.
C11_Witness ==
    /\ hasattr
    /\ _countries.id = 2
    /\ discarded # <<>>
    /\ COUNTRIES_OVERRIDE # <<>>
    /\ Fresh
    /\ Len(_countries.items) = 3

\* The base pairs in base order, the override's value in place of the name,
\* without those whose value is None: the specification's base walk.
RECURSIVE Survivors(_, _)
Survivors(base, overrides) ==
    IF base = <<>> THEN <<>>
    ELSE LET code == Head(base)[1]
             name == IF code \in Keys(overrides)
                     THEN Get(overrides, code)
                     ELSE Head(base)[2]
         IN  (IF name = None THEN <<>> ELSE << <<code, name>> >>)
                 \o Survivors(Tail(base), overrides)

\* The override's items whose code is not a base code, in the mapping's order.
OverrideOnly(base, overrides) ==
    LET NotBase(p) == p[1] \notin Keys(base)
    IN  SelectSeq(overrides, NotBase)

WithoutIdleNone(base, overrides) ==
    LET Effective(p) == ~(p[1] \notin Keys(base) /\ p[2] = None)
    IN  SelectSeq(overrides, Effective)

\* C13: with COUNTRIES_ONLY empty, an item of COUNTRIES_OVERRIDE that maps a
\* non-base code to None changes nothing: the list, its length, `in` and
\* name() are those of the settings without that item.
C13_IdleNone ==
    (COUNTRIES_ONLY = <<>> /\ Fresh) =>
        LET plain == Builds(<<>>, WithoutIdleNone(COUNTRIES, COUNTRIES_OVERRIDE),
                            COUNTRIES)
        IN  /\ _countries.items \in plain
            /\ ret.op = "len" => \E b \in plain : ret.val = Len(b)
            /\ ret.op = "contains" =>
                  \E b \in plain : ret.val = (ret.arg \in CodesOf(b))
            /\ ret.op = "name" =>
                  \E b \in plain : ret.val = DictGet(b, ret.arg, EmptyString)

\* seq[start:stop:step] of a Python list, start and stop not negative: the
\* elements at start, start + step, ... before stop (after it, going down).
PySlice(seq, start, stop, step) ==
    LET n == Len(seq)
        d == Or(step, 1)
        Clip(x, top) == IF x > top THEN top ELSE x
        s == IF d > 0 THEN Clip(Or(start, 0), n) ELSE Clip(Or(start, n - 1), n - 1)
        e == IF d > 0 THEN Clip(Or(stop, n), n) ELSE Clip(Or(stop, -1), n - 1)
        m == IF d > 0
             THEN (IF e > s THEN ((e - s - 1) \div d) + 1 ELSE 0)
             ELSE (IF s > e THEN ((s - e - 1) \div (0 - d)) + 1 ELSE 0)
    IN  [k \in 1..m |-> seq[s + (k - 1) * d + 1]]

\* C14: countries[start:stop:step], step not zero, start and stop absent or
\* not negative, is the slice list(countries)[start:stop:step] of the sorted
\* iteration, for positive and for negative step.
C14_GenericSlice ==
    (ret.op = "getslice" /\ Or(ret.arg.step, 1) # 0) =>
        /\ ret.exc = ""
        /\ ret.val = PySlice(Iter(_countries.items, locale),
                             ret.arg.start, ret.arg.stop, ret.arg.step)

\* C15: a change of the settings leaves the cached list as it is, and while
\* the attribute is set every read returns what that list holds, not what
\* the settings of the moment would give; the list changes only by a del or
\* by the build of the first read after one.
C15_StaleUntilDel ==
    [][/\ ret'.op = "settings" => _countries' = _countries
       /\ (hasattr /\ IsRead(ret'.op)) =>
             /\ _countries'.items = _countries.items
             /\ ReadOf(ret', _countries.items)
       /\ (hasattr /\ _countries'.items # _countries.items) => ret'.op = "del"
      ]_vars

\* name('XX') returned '' from the cached list although COUNTRIES_OVERRIDE
\* now adds XX.
C15_Witness ==
    /\ ret.op = "name"
    /\ ret.arg = "XX"
    /\ ret.val = EmptyString
    /\ COUNTRIES_ONLY = <<>>
    /\ MapsToName("XX")
    /\ hasattr
    /\ ~Fresh

\* C18: del never raises and leaves the attribute absent; with the attribute
\* absent already it changes nothing, so dels in a row are as one.
C18_DelIsSafe ==
    [][ret'.op = "del" =>
          /\ ret'.exc = ""
          /\ ~hasattr'
          /\ ~hasattr =>
                UNCHANGED <<_countries, nextId, COUNTRIES, COUNTRIES_ONLY,
                            COUNTRIES_OVERRIDE, locale>>
      ]_vars

\* del was called and no list has ever been removed: there was none.
C18_Witness ==
    /\ ret.op = "del"
    /\ ret.exc = ""
    /\ discarded = <<>>
    /\ ~hasattr

\* C20: with the attribute set, a read leaves the list the same object with
\* the same items in the same order; no read changes COUNTRIES_ONLY,
\* COUNTRIES_OVERRIDE or the base dataset; and the attribute changes only by
\* a del or by a build, which a read does when the attribute is absent.
C20_ReadsAreReads ==
    [][/\ (hasattr /\ IsRead(ret'.op)) => _countries' = _countries
       /\ IsRead(ret'.op) =>
             UNCHANGED <<COUNTRIES, COUNTRIES_ONLY, COUNTRIES_OVERRIDE>>
       /\ _countries' # _countries =>
             \/ ret'.op = "del" /\ hasattr /\ ~hasattr'
             \/ IsRead(ret'.op) /\ ~hasattr /\ hasattr'
      ]_vars

\* A slice was read from a list built before the settings last changed.
C20_Witness ==
    /\ ret.op = "getslice"
    /\ ret.exc = ""
    /\ Len(ret.val) = 2
    /\ hasattr
    /\ ~Fresh

\* The display string of a name in a translation, from the catalogue.
Displayed(name, loc) ==
    IF name = None THEN NoneText
    ELSE IF name = Lazy(Australia) /\ loc = "de" THEN Australien
    ELSE IF name = Lazy(NewZealand) /\ loc = "de" THEN Neuseeland
    ELSE name.s

NonDecreasing(pairs) ==
    \A i, j \in 1..Len(pairs) : i < j => ~TextLess(pairs[j][2], pairs[i][2])

\* C16: every __iter__ call, also one that follows a change of translation
\* with no del in between, yields the entries of the cached list, which it
\* leaves as it is, with each name as the translation of the moment displays
\* it, sorted by those names.
C16_IterPerLocale ==
    [][ret'.op = "iter" =>
          /\ hasattr => _countries' = _countries
          /\ Len(ret'.val) = Len(_countries'.items)
          /\ PairsOf(ret'.val) =
                { <<p[1], Displayed(p[2], locale')>> : p \in PairsOf(_countries'.items) }
          /\ NonDecreasing(ret'.val)
      ]_vars

\* An iteration in the German translation put New Zealand (Neuseeland) before
\* an entry named New, which the English one puts behind it.
C16_Witness ==
    /\ ret.op = "iter"
    /\ locale = "de"
    /\ \E i, j \in 1..Len(ret.val) :
          /\ i < j
          /\ ret.val[i] = <<"NZ", Neuseeland>>
          /\ ret.val[j][2] = New
    /\ <<"NZ", Lazy(NewZealand)>> \in PairsOf(_countries.items)

\* Where the code stands in the list.
IndexOf(items, code) == CHOOSE i \in 1..Len(items) : items[i][1] = code

\* C17: two entries with the same resolved name come out of the iteration in
\* the order the cached list holds them in.
C17_StableSort ==
    ret.op = "iter" =>
        \A i, j \in 1..Len(ret.val) :
            (i < j /\ ret.val[i][2] = ret.val[j][2]) =>
                IndexOf(_countries.items, ret.val[i][1])
                    < IndexOf(_countries.items, ret.val[j][1])

\* Three entries were iterated, two of them with the same name and not next
\* to each other in the cached list.
C17_Witness ==
    /\ ret.op = "iter"
    /\ Len(ret.val) = 3
    /\ \E i \in 1..2 : ret.val[i][2] = ret.val[i + 1][2]
    /\ _countries.items[1][2] = _countries.items[3][2]

\* C19: the iteration yields each entry of the cached list once: as many
\* elements as len(), and each code as often as the list holds it.
C19_IterIsPermutation ==
    ret.op = "iter" =>
        /\ Len(ret.val) = Len(_countries.items)
        /\ \A c \in Codes :
              Cardinality({ i \in 1..Len(ret.val) : ret.val[i][1] = c })
                  = Cardinality({ i \in 1..Len(_countries.items) :
                                    _countries.items[i][1] = c })

\* Three entries came out in another order than the cached list holds them.
C19_Witness ==
    /\ ret.op = "iter"
    /\ Len(ret.val) = 3
    /\ \E i \in 1..3 : ret.val[i][1] # _countries.items[i][1]

=============================================================================
